---- MODULE Spec2Model ----
(***************************************************************************)
(* Model of vitest-coverage-merge: the structural merge of istanbul        *)
(* coverage maps (smart-merge: buildLookups, selectBestSource,             *)
(* mergeFileCoverages, smartMergeCoverage) and the normalisation pass      *)
(* (normalizeCoverage, normalizeFileCoverage, isDirective).                *)
(*                                                                         *)
(* A coverage map is a JavaScript object: file path -> file record.  A     *)
(* file record holds statementMap/s, fnMap/f, branchMap/b, each a          *)
(* JavaScript object keyed by integer-like ids, so Object.entries walks    *)
(* it in ascending id order.  Objects live in a heap (mapObj, fileObj) so  *)
(* that copying and in-place mutation are distinguishable.                 *)
(***************************************************************************)
EXTENDS Integers, Sequences, FiniteSets, TLC

\* column === null of a Location (type Location, column: number | null)
NullCol == -1

(***************************************************************************)
(* Generic helpers for JavaScript objects and Maps, modelled as functions  *)
(* whose DOMAIN is the set of keys present.                                *)
(***************************************************************************)
EmptyObj == << >>

\* obj[k] = v / map.set(k, v): adds the key or overwrites its value
Put(obj, k, v) == [x \in (DOMAIN obj) \cup {k} |-> IF x = k THEN v ELSE obj[x]]

\* delete obj[k]
Delete(obj, k) == [x \in (DOMAIN obj) \ {k} |-> obj[x]]

Max(a, b) == IF a > b THEN a ELSE b

MinOf(S) == CHOOSE x \in S : \A y \in S : x <= y

\* Object.keys / Object.entries order of an object with integer-like keys:
\* ascending numeric order
RECURSIVE Keys(_)
Keys(obj) ==
  IF DOMAIN obj = {} THEN << >>
  ELSE LET k == MinOf(DOMAIN obj) IN << k >> \o Keys(Delete(obj, k))

(***************************************************************************)
(* Location Keyer                                                          *)
(***************************************************************************)
\* `${loc.start.line}:${loc.start.column}`: the pair determines the string
\* and the string the pair (null prints as "null", no number does)
locationKey(loc) == << loc.line, loc.column >>

lineKey(loc) == loc.line

(***************************************************************************)
(* buildLookups                                                            *)
(***************************************************************************)
\* data.s[key] || 0
CountOr0(counts, key) == IF key \in DOMAIN counts THEN counts[key] ELSE 0

\* data.b[key] || []
CountsOrEmpty(b, key) == IF key \in DOMAIN b THEN b[key] ELSE << >>

\* one loop of buildLookups over statements (or functions): exact key set
\* by every executed entry in turn (the last one stays), line key the max
RECURSIVE CountLookupLoop(_, _, _, _)
CountLookupLoop(locMap, counts, keys, acc) ==
  IF keys = << >> THEN acc
  ELSE LET key   == Head(keys)
           loc   == locMap[key]
           count == CountOr0(counts, key)
           line  == lineKey(loc)
           prev  == IF line \in DOMAIN acc.byLine THEN acc.byLine[line] ELSE 0
           next  == IF count > 0
                    THEN [exact  |-> Put(acc.exact, locationKey(loc), count),
                          byLine |-> Put(acc.byLine, line, Max(prev, count))]
                    ELSE acc
       IN CountLookupLoop(locMap, counts, Tail(keys), next)

SomePositive(counts) == \E i \in 1..Len(counts) : counts[i] > 0

\* the branch loop setting the line entry without the has() test: the last
\* executed branch of a line stays
RECURSIVE BranchLookupLoopLastWins(_, _, _, _)
BranchLookupLoopLastWins(branchMap, b, keys, acc) ==
  IF keys = << >> THEN acc
  ELSE LET key    == Head(keys)
           loc    == branchMap[key]
           counts == CountsOrEmpty(b, key)
           next   == IF SomePositive(counts)
                     THEN [exact  |-> Put(acc.exact, locationKey(loc), counts),
                           byLine |-> Put(acc.byLine, lineKey(loc), counts)]
                     ELSE acc
       IN BranchLookupLoopLastWins(branchMap, b, Tail(keys), next)

\* the loop of buildLookups over branches: the line key keeps its first writer
RECURSIVE BranchLookupLoop(_, _, _, _)
BranchLookupLoop(branchMap, b, keys, acc) ==
  IF keys = << >> THEN acc
  ELSE LET key    == Head(keys)
           loc    == branchMap[key]
           counts == CountsOrEmpty(b, key)
           line   == lineKey(loc)
           next   == IF SomePositive(counts)
                     THEN [exact  |-> Put(acc.exact, locationKey(loc), counts),
                           byLine |-> IF line \in DOMAIN acc.byLine
                                      THEN acc.byLine
                                      ELSE Put(acc.byLine, line, counts)]
                     ELSE acc
       IN BranchLookupLoop(branchMap, b, Tail(keys), next)

EmptyLookup == [exact |-> EmptyObj, byLine |-> EmptyObj]

buildLookups(data) ==
  LET st == CountLookupLoop(data.statementMap, data.s, Keys(data.statementMap), EmptyLookup)
      fn == CountLookupLoop(data.fnMap, data.f, Keys(data.fnMap), EmptyLookup)
      br == BranchLookupLoop(data.branchMap, data.b, Keys(data.branchMap), EmptyLookup)
  IN [stmts |-> st.exact, stmtsByLine |-> st.byLine,
      fns |-> fn.exact, fnsByLine |-> fn.byLine,
      branches |-> br.exact, branchesByLine |-> br.byLine]

(***************************************************************************)
(* selectBestSource                                                        *)
(***************************************************************************)
getTotalItems(cov) ==
  Cardinality(DOMAIN cov.statementMap) + Cardinality(DOMAIN cov.branchMap)
    + Cardinality(DOMAIN cov.fnMap)

\* a statement starting at line 1 with column 0 or null
hasDirective(cov) ==
  \E k \in DOMAIN cov.statementMap :
    /\ cov.statementMap[k].line = 1
    /\ (cov.statementMap[k].column = 0 \/ cov.statementMap[k].column = NullCol)

\* the indices without the filter: every record
AllIdx(coverages) == 1..Len(coverages)

\* indices (1-based positions in coverages) of the records with items
NonEmptyIdx(coverages) == {i \in 1..Len(coverages) : getTotalItems(coverages[i]) > 0}

\* the reduce with the comparison turned round: the first one
FirstIdx(S) == CHOOSE i \in S : \A j \in S : i <= j

\* withoutDirective.reduce(current.idx > best.idx ? current : best)
LastIdx(S) == CHOOSE i \in S : \A j \in S : j <= i

\* the reduce with <= for <: the last, in input order, of those with the
\* fewest items
FewestIdxLast(coverages, S) ==
  CHOOSE i \in S :
    /\ \A j \in S : getTotalItems(coverages[i]) <= getTotalItems(coverages[j])
    /\ \A j \in S : (j > i) => getTotalItems(coverages[j]) > getTotalItems(coverages[i])

\* the reduce with the comparison turned round: the first, in input order,
\* of those with the most items
MostIdx(coverages, S) ==
  CHOOSE i \in S :
    /\ \A j \in S : getTotalItems(coverages[i]) >= getTotalItems(coverages[j])
    /\ \A j \in S : (j < i) => getTotalItems(coverages[j]) < getTotalItems(coverages[i])

\* nonEmptyWithIndex.reduce(items(current) < items(best) ? current : best):
\* the first, in input order, of those with the fewest items
FewestIdx(coverages, S) ==
  CHOOSE i \in S :
    /\ \A j \in S : getTotalItems(coverages[i]) <= getTotalItems(coverages[j])
    /\ \A j \in S : (j < i) => getTotalItems(coverages[j]) > getTotalItems(coverages[i])

\* the position in coverages of the record selectBestSource returns
selectBestSource(coverages) ==
  LET nonEmpty == NonEmptyIdx(coverages)
      without  == {i \in nonEmpty : ~hasDirective(coverages[i])}
  IN IF nonEmpty = {} THEN 1
     ELSE IF Cardinality(nonEmpty) = 1 THEN CHOOSE i \in nonEmpty : TRUE
     ELSE IF without # {} THEN LastIdx(without)
     ELSE FewestIdx(coverages, nonEmpty)

(***************************************************************************)
(* mergeFileCoverages                                                      *)
(***************************************************************************)
\* the loop without the line fallback: count = exact.get(locKey)
RECURSIVE MaxCountLoopExactOnly(_, _, _, _, _)
MaxCountLoopExactOnly(exactSeq, lineSeq, locKey, line, maxCount) ==
  IF exactSeq = << >> THEN maxCount
  ELSE LET exact == Head(exactSeq)
           next  == IF locKey \in DOMAIN exact /\ exact[locKey] > maxCount
                    THEN exact[locKey]
                    ELSE maxCount
       IN MaxCountLoopExactOnly(Tail(exactSeq), Tail(lineSeq), locKey, line, next)

\* the inner loop over allLookups for one statement (or function):
\* count = exact.get(locKey) ?? byLine.get(line); keep the running maximum
RECURSIVE MaxCountLoop(_, _, _, _, _)
MaxCountLoop(exactSeq, lineSeq, locKey, line, maxCount) ==
  IF exactSeq = << >> THEN maxCount
  ELSE LET exact   == Head(exactSeq)
           byLine  == Head(lineSeq)
           defined == locKey \in DOMAIN exact \/ line \in DOMAIN byLine
           count   == IF locKey \in DOMAIN exact THEN exact[locKey] ELSE byLine[line]
           next    == IF defined /\ count > maxCount THEN count ELSE maxCount
       IN MaxCountLoop(Tail(exactSeq), Tail(lineSeq), locKey, line, next)

\* the loop over the baseline's statementMap (or fnMap) entries:
\* merged.s[key] = max(merged.s[key] || 0, every lookup's count)
RECURSIVE MergeCountsLoop(_, _, _, _, _)
MergeCountsLoop(locMap, keys, exactSeq, lineSeq, counts) ==
  IF keys = << >> THEN counts
  ELSE LET key      == Head(keys)
           loc      == locMap[key]
           maxCount == MaxCountLoop(exactSeq, lineSeq, locationKey(loc), lineKey(loc),
                                    CountOr0(counts, key))
       IN MergeCountsLoop(locMap, Tail(keys), exactSeq, lineSeq, Put(counts, key, maxCount))

\* the map without the maximum: baseCounts.map((c, i) => counts[i] || 0)
MapSourceOnly(baseCounts, counts) ==
  [i \in 1..Len(baseCounts) |-> IF i <= Len(counts) THEN counts[i] ELSE 0]

\* the map running over the longer of the two arrays
MapMaxLonger(baseCounts, counts) ==
  [i \in 1..Max(Len(baseCounts), Len(counts)) |->
     Max(IF i <= Len(baseCounts) THEN baseCounts[i] ELSE 0,
         IF i <= Len(counts) THEN counts[i] ELSE 0)]

\* baseCounts.map((c, i) => Math.max(c, counts[i] || 0))
MapMax(baseCounts, counts) ==
  [i \in 1..Len(baseCounts) |->
     Max(baseCounts[i], IF i <= Len(counts) THEN counts[i] ELSE 0)]

\* the inner loop over allLookups for one branch: every lookup that has the
\* location assigns merged.b[key] from baseCounts, which was read once
\* before the loop
RECURSIVE BranchInnerLoop(_, _, _, _, _, _, _)
BranchInnerLoop(exactSeq, lineSeq, locKey, line, baseCounts, key, b) ==
  IF exactSeq = << >> THEN b
  ELSE LET exact   == Head(exactSeq)
           byLine  == Head(lineSeq)
           defined == locKey \in DOMAIN exact \/ line \in DOMAIN byLine
           counts  == IF locKey \in DOMAIN exact THEN exact[locKey] ELSE byLine[line]
           next    == IF defined THEN Put(b, key, MapMax(baseCounts, counts)) ELSE b
       IN BranchInnerLoop(Tail(exactSeq), Tail(lineSeq), locKey, line, baseCounts, key, next)

\* the loop over the baseline's branchMap entries
RECURSIVE MergeBranchesLoop(_, _, _, _, _)
MergeBranchesLoop(branchMap, keys, exactSeq, lineSeq, b) ==
  IF keys = << >> THEN b
  ELSE LET key        == Head(keys)
           loc        == branchMap[key]
           baseCounts == CountsOrEmpty(b, key)
           next       == BranchInnerLoop(exactSeq, lineSeq, locationKey(loc), lineKey(loc),
                                         baseCounts, key, b)
       IN MergeBranchesLoop(branchMap, Tail(keys), exactSeq, lineSeq, next)

\* the merged record of two or more records of one file (a fresh object:
\* every field is a JSON copy of the best source's field)
mergeFileCoverages(coverages) ==
  LET bestSource == coverages[selectBestSource(coverages)]
      allLookups == [i \in 1..Len(coverages) |-> buildLookups(coverages[i])]
      n          == Len(coverages)
  IN [path         |-> coverages[1].path,
      statementMap |-> bestSource.statementMap,
      s            |-> MergeCountsLoop(bestSource.statementMap, Keys(bestSource.statementMap),
                         [i \in 1..n |-> allLookups[i].stmts],
                         [i \in 1..n |-> allLookups[i].stmtsByLine], bestSource.s),
      fnMap        |-> bestSource.fnMap,
      f            |-> MergeCountsLoop(bestSource.fnMap, Keys(bestSource.fnMap),
                         [i \in 1..n |-> allLookups[i].fns],
                         [i \in 1..n |-> allLookups[i].fnsByLine], bestSource.f),
      branchMap    |-> bestSource.branchMap,
      b            |-> MergeBranchesLoop(bestSource.branchMap, Keys(bestSource.branchMap),
                         [i \in 1..n |-> allLookups[i].branches],
                         [i \in 1..n |-> allLookups[i].branchesByLine], bestSource.b)]

(***************************************************************************)
(* State                                                                   *)
(***************************************************************************)
VARIABLES
  coverageMaps,  \* the argument list: a sequence of references to map objects
  mapObj,        \* heap of map objects: reference -> (file path -> record reference)
  fileObj,       \* heap of file records: reference -> record
  sources,       \* the file system: file path -> source text, or none
  result,        \* the reference smartMergeCoverage returned, once it has
  normalized,    \* what normalizeCoverage returned last, per argument position
  pc,
  caller,        \* who runs mergeCoverage: the command line, a program, nobody
  argv,          \* process.argv.slice(2)
  options,       \* the MergeOptions handed to mergeCoverage
  disk,          \* the file system: directory -> what it holds
  todo,          \* the input directories the loading loop has not reached
  written,       \* the files written to the output directory
  outcome,       \* how the run ended: exit code, resolved or rejected promise
  branchArrays   \* which array object each b[key] of the result's records is

cliVars == << caller, argv, options, disk, todo, written, outcome >>

vars == << coverageMaps, mapObj, fileObj, sources, result, normalized, pc,
           caller, argv, options, disk, todo, written, outcome, branchArrays >>

\* no run of the command line or of mergeCoverage
NoCommand ==
  /\ caller = "nobody"
  /\ argv = << >>
  /\ options = << >>
  /\ disk = << >>
  /\ todo = << >>
  /\ written = {}
  /\ outcome = "none"

Files == {"a.ts", "b.ts"}

\* result before the call has returned: no reference
NoResult == -1

\* the reference of an object created by the call (const merged = {}, the
\* result of JSON.parse): distinct from every argument's reference 1..n
NewMapRef == 0

NewRecRef(file) == << NewMapRef, file >>

\* the value of the map object at a reference: file path -> record
MapValue(ref) == [file \in DOMAIN mapObj[ref] |-> fileObj[mapObj[ref][file]]]

(***************************************************************************)
(* smartMergeCoverage                                                      *)
(* An object graph is described as [root, files: path -> [ref, val]].      *)
(***************************************************************************)
(***************************************************************************)
(* Identity of the branch count arrays: the array an input record holds at *)
(* b[key] is the object << record reference, key >>.                        *)
(***************************************************************************)
\* the arrays of a JSON copy of a record: new objects
NewArrays(recRef) == [k \in DOMAIN fileObj[recRef].b |-> << NewRecRef(recRef[2]), k >>]

\* the array objects the branch index of a record holds: branches.set and
\* branchesByLine.set store data.b[key] itself
RECURSIVE BranchLookupArrays(_, _, _, _, _)
BranchLookupArrays(recRef, branchMap, b, keys, acc) ==
  IF keys = << >> THEN acc
  ELSE LET key    == Head(keys)
           loc    == branchMap[key]
           counts == CountsOrEmpty(b, key)
           line   == lineKey(loc)
           next   == IF SomePositive(counts)
                     THEN [exact  |-> Put(acc.exact, locationKey(loc), << recRef, key >>),
                           byLine |-> IF line \in DOMAIN acc.byLine
                                      THEN acc.byLine
                                      ELSE Put(acc.byLine, line, << recRef, key >>)]
                     ELSE acc
       IN BranchLookupArrays(recRef, branchMap, b, Tail(keys), next)

\* merged.b[key] = counts: the array of the index itself
SameArray(mergedArray, countsArray) == countsArray

\* merged.b[key] = baseCounts.map(...): map returns a new array
NewArray(mergedArray, countsArray) == mergedArray

\* the array merged.b[key] is after the loop over the lookups
RECURSIVE BranchArrayLoop(_, _, _, _, _, _)
BranchArrayLoop(exactSeq, lineSeq, locKey, line, mergedArray, current) ==
  IF exactSeq = << >> THEN current
  ELSE LET exact   == Head(exactSeq)
           byLine  == Head(lineSeq)
           defined == locKey \in DOMAIN exact \/ line \in DOMAIN byLine
           counts  == IF locKey \in DOMAIN exact THEN exact[locKey] ELSE byLine[line]
           next    == IF defined THEN NewArray(mergedArray, counts) ELSE current
       IN BranchArrayLoop(Tail(exactSeq), Tail(lineSeq), locKey, line, mergedArray, next)

\* the array objects of the record mergeFileCoverages returns for the
\* records at recRefs
mergedBranchArrays(recRefs, file) ==
  LET coverages == [i \in 1..Len(recRefs) |-> fileObj[recRefs[i]]]
      best      == coverages[selectBestSource(coverages)]
      lookups   == [i \in 1..Len(recRefs) |->
                      BranchLookupArrays(recRefs[i], coverages[i].branchMap, coverages[i].b,
                                         Keys(coverages[i].branchMap), EmptyLookup)]
  IN [key \in DOMAIN best.b |->
        BranchArrayLoop([i \in 1..Len(recRefs) |-> lookups[i].exact],
                        [i \in 1..Len(recRefs) |-> lookups[i].byLine],
                        locationKey(best.branchMap[key]), lineKey(best.branchMap[key]),
                        << NewRecRef(file), key >>, << NewRecRef(file), key >>)]

\* a single-source record put through the merge logic instead of copied
MergedCloneRec(recRef) ==
  [ref    |-> NewRecRef(recRef[2]),
   val    |-> mergeFileCoverages(<< fileObj[recRef], fileObj[recRef] >>),
   arrays |-> NewArrays(recRef)]

\* JSON.parse(JSON.stringify(record)): an equal record in a new object
JsonCloneRec(recRef) ==
  [ref |-> NewRecRef(recRef[2]), val |-> fileObj[recRef], arrays |-> NewArrays(recRef)]

\* return coverageMaps[0]: the argument itself, no copy
AliasMap(mapRef) ==
  [root  |-> mapRef,
   files |-> [file \in DOMAIN mapObj[mapRef] |->
                [ref    |-> mapObj[mapRef][file],
                 val    |-> fileObj[mapObj[mapRef][file]],
                 arrays |-> [k \in DOMAIN fileObj[mapObj[mapRef][file]].b |->
                               << mapObj[mapRef][file], k >>]]]]

\* JSON.parse(JSON.stringify(coverageMaps[0])): new map object, new records
JsonCloneMap(mapRef) ==
  [root  |-> NewMapRef,
   files |-> [file \in DOMAIN mapObj[mapRef] |-> JsonCloneRec(mapObj[mapRef][file])]]

\* coverageMaps.filter((m) => file in m).map((m) => m[file]): record references
FileCoverages(mapRefs, file) ==
  LET Has(m) == file \in DOMAIN mapObj[m]
      with   == SelectSeq(mapRefs, Has)
  IN [i \in 1..Len(with) |-> mapObj[with[i]][file]]

smartMergeCoverage(mapRefs) ==
  IF Len(mapRefs) = 0 THEN [root |-> NewMapRef, files |-> EmptyObj]
  ELSE IF Len(mapRefs) = 1 THEN JsonCloneMap(mapRefs[1])
  ELSE LET allFiles == UNION {DOMAIN mapObj[mapRefs[i]] : i \in 1..Len(mapRefs)}
       IN [root  |-> NewMapRef,
           files |-> [file \in allFiles |->
                        LET fileCoverages == FileCoverages(mapRefs, file)
                        IN IF Len(fileCoverages) = 1
                           THEN JsonCloneRec(fileCoverages[1])
                           ELSE [ref |-> NewRecRef(file),
                                 val |-> mergeFileCoverages(
                                           [i \in 1..Len(fileCoverages) |->
                                              fileObj[fileCoverages[i]]]),
                                 arrays |-> mergedBranchArrays(fileCoverages, file)]]]

\* the value of an object graph: file path -> record
GraphValue(g) == [file \in DOMAIN g.files |-> g.files[file].val]

(***************************************************************************)
(* normalizeCoverage                                                       *)
(* A source line is a sequence of one-character strings.                   *)
(***************************************************************************)
\* the characters String.prototype.trim removes that occur in the model
WhiteSpace == {" ", "\t", "\r"}

RECURSIVE TrimStart(_)
TrimStart(str) ==
  IF str # << >> /\ Head(str) \in WhiteSpace THEN TrimStart(Tail(str)) ELSE str

RECURSIVE TrimEnd(_)
TrimEnd(str) ==
  IF str # << >> /\ str[Len(str)] \in WhiteSpace
  THEN TrimEnd(SubSeq(str, 1, Len(str) - 1))
  ELSE str

trim(str) == TrimEnd(TrimStart(str))

startsWith(str, prefix) ==
  Len(str) >= Len(prefix) /\ SubSeq(str, 1, Len(prefix)) = prefix

ImportSpace == << "i", "m", "p", "o", "r", "t", " " >>
ImportBrace == << "i", "m", "p", "o", "r", "t", "{" >>

DirectiveLiterals ==
  { << "'", "u", "s", "e", " ", "s", "e", "r", "v", "e", "r", "'" >>,
    << "\"", "u", "s", "e", " ", "s", "e", "r", "v", "e", "r", "\"" >>,
    << "'", "u", "s", "e", " ", "s", "e", "r", "v", "e", "r", "'", ";" >>,
    << "\"", "u", "s", "e", " ", "s", "e", "r", "v", "e", "r", "\"", ";" >>,
    << "'", "u", "s", "e", " ", "c", "l", "i", "e", "n", "t", "'" >>,
    << "\"", "u", "s", "e", " ", "c", "l", "i", "e", "n", "t", "\"" >>,
    << "'", "u", "s", "e", " ", "c", "l", "i", "e", "n", "t", "'", ";" >>,
    << "\"", "u", "s", "e", " ", "c", "l", "i", "e", "n", "t", "\"", ";" >> }

isDirective(line) == line \in DirectiveLiterals

\* the line without the trim: lines[lineNum - 1] || ''
LineContentUntrimmed(lines, lineNum) ==
  IF lineNum >= 1 /\ lineNum <= Len(lines) THEN lines[lineNum] ELSE << >>

\* lines[lineNum - 1]?.trim() || ''
LineContent(lines, lineNum) ==
  IF lineNum >= 1 /\ lineNum <= Len(lines) THEN trim(lines[lineNum]) ELSE << >>

\* the type pushed to keysToRemove for a statement on that line, or "keep"
Classify(lineContent) ==
  IF startsWith(lineContent, ImportSpace) \/ startsWith(lineContent, ImportBrace)
  THEN "import"
  ELSE IF isDirective(lineContent) THEN "directive"
  ELSE "keep"

\* the file system's answer for a path
Missing    == [kind |-> "missing", lines |-> << >>]
Unreadable == [kind |-> "unreadable", lines |-> << >>]
Text(lines) == [kind |-> "text", lines |-> lines]

\* existsSync(filePath) ? readFileSync(filePath).split('\n') : []; [] too
\* when the read throws (the catch returns before anything is removed)
ReadLines(src) == IF src.kind = "text" THEN src.lines ELSE << >>

\* the loop that collects keysToRemove, in Object.entries order
RECURSIVE KeysToRemove(_, _, _)
KeysToRemove(statementMap, keys, lines) ==
  IF keys = << >> THEN << >>
  ELSE LET key  == Head(keys)
           type == Classify(LineContent(lines, statementMap[key].line))
           rest == KeysToRemove(statementMap, Tail(keys), lines)
       IN IF type = "keep" THEN rest ELSE << [key |-> key, type |-> type] >> \o rest

\* the loop counting the collected keys without deleting them
RECURSIVE RemoveLoopFlagOnly(_, _)
RemoveLoopFlagOnly(toRemove, acc) ==
  IF toRemove = << >> THEN acc
  ELSE LET item == Head(toRemove)
       IN RemoveLoopFlagOnly(Tail(toRemove),
            [acc EXCEPT
               !.importsRemoved    = @ + (IF item.type = "import" THEN 1 ELSE 0),
               !.directivesRemoved = @ + (IF item.type = "import" THEN 0 ELSE 1)])

\* the loop deleting the key from the function maps as well
RECURSIVE RemoveLoopAllMaps(_, _)
RemoveLoopAllMaps(toRemove, acc) ==
  IF toRemove = << >> THEN acc
  ELSE LET item == Head(toRemove)
       IN RemoveLoopAllMaps(Tail(toRemove),
            [data |-> [acc.data EXCEPT
                         !.statementMap = Delete(@, item.key),
                         !.s = Delete(@, item.key),
                         !.fnMap = Delete(@, item.key),
                         !.f = Delete(@, item.key)],
             importsRemoved    |-> acc.importsRemoved
                                     + (IF item.type = "import" THEN 1 ELSE 0),
             directivesRemoved |-> acc.directivesRemoved
                                     + (IF item.type = "import" THEN 0 ELSE 1)])

\* the loop that deletes the collected keys and counts them by type
RECURSIVE RemoveLoop(_, _)
RemoveLoop(toRemove, acc) ==
  IF toRemove = << >> THEN acc
  ELSE LET item == Head(toRemove)
       IN RemoveLoop(Tail(toRemove),
            [data |-> [acc.data EXCEPT
                         !.statementMap = Delete(@, item.key),
                         !.s = Delete(@, item.key)],
             importsRemoved    |-> acc.importsRemoved
                                     + (IF item.type = "import" THEN 1 ELSE 0),
             directivesRemoved |-> acc.directivesRemoved
                                     + (IF item.type = "import" THEN 0 ELSE 1)])

\* the record as normalizeFileCoverage leaves it, and what it returns
normalizeFileCoverage(src, fileData) ==
  LET lines    == ReadLines(src)
      untouched == [data |-> fileData, importsRemoved |-> 0, directivesRemoved |-> 0]
  IN IF Len(lines) = 0 THEN untouched
     ELSE RemoveLoop(KeysToRemove(fileData.statementMap, Keys(fileData.statementMap), lines),
                     untouched)

\* Object.entries(coverageMap) as a sequence of file paths (the totals and
\* the per-file effects do not depend on the order)
RECURSIVE Entries(_)
Entries(S) == IF S = {} THEN << >> ELSE LET x == CHOOSE y \in S : TRUE IN << x >> \o Entries(S \ {x})

RECURSIVE SumOver(_, _, _)
SumOver(paths, perFile, field) ==
  IF paths = << >> THEN 0
  ELSE perFile[Head(paths)][field] + SumOver(Tail(paths), perFile, field)

\* normalizeCoverage whose loop ends at the first file that cannot be read:
\* that file and the files after it are left as they are
normalizeCoverageAbort(mapRef) ==
  LET paths   == Entries(DOMAIN mapObj[mapRef])
      Reached(file) ==
        \A j \in 1..Len(paths) :
          sources[paths[j]].kind # "text" =>
            \E k \in (j + 1)..Len(paths) : paths[k] = file
      perFile == [file \in DOMAIN mapObj[mapRef] |->
                    IF Reached(file)
                    THEN normalizeFileCoverage(sources[file], fileObj[mapObj[mapRef][file]])
                    ELSE [data |-> fileObj[mapObj[mapRef][file]],
                          importsRemoved |-> 0, directivesRemoved |-> 0]]
  IN [perFile           |-> perFile,
      importsRemoved    |-> SumOver(paths, perFile, "importsRemoved"),
      directivesRemoved |-> SumOver(paths, perFile, "directivesRemoved")]

\* normalizeCoverage(coverageMap): the per-file outcomes and the totals
normalizeCoverage(mapRef) ==
  LET paths   == Entries(DOMAIN mapObj[mapRef])
      perFile == [file \in DOMAIN mapObj[mapRef] |->
                    normalizeFileCoverage(sources[file], fileObj[mapObj[mapRef][file]])]
  IN [perFile           |-> perFile,
      importsRemoved    |-> SumOver(paths, perFile, "importsRemoved"),
      directivesRemoved |-> SumOver(paths, perFile, "directivesRemoved")]

(***************************************************************************)
(* Operations                                                              *)
(***************************************************************************)
NotRun == [ran |-> FALSE, importsRemoved |-> 0, directivesRemoved |-> 0]

\* the object graph a call returned, put into the heap
Install(g) ==
  /\ mapObj' = Put(mapObj, g.root, [file \in DOMAIN g.files |-> g.files[file].ref])
  /\ fileObj' = [r \in (DOMAIN fileObj) \cup {g.files[file].ref : file \in DOMAIN g.files} |->
                   IF r[2] \in DOMAIN g.files /\ g.files[r[2]].ref = r
                   THEN g.files[r[2]].val
                   ELSE fileObj[r]]
  /\ result' = g.root
  /\ branchArrays' = [file \in DOMAIN g.files |-> g.files[file].arrays]

\* result = smartMergeCoverage(coverageMaps)
SmartMerge ==
  /\ pc = "start"
  /\ Install(smartMergeCoverage(coverageMaps))
  /\ pc' = "merged"
  /\ UNCHANGED << coverageMaps, sources, normalized, cliVars >>

\* normalizeCoverage(coverageMaps[i]): the records of that map are changed
\* in place
Normalize(i) ==
  /\ pc = "start"
  /\ LET m   == coverageMaps[i]
         out == normalizeCoverage(m)
     IN /\ fileObj' = [r \in DOMAIN fileObj |->
                         IF r[2] \in DOMAIN mapObj[m] /\ mapObj[m][r[2]] = r
                         THEN out.perFile[r[2]].data
                         ELSE fileObj[r]]
        /\ normalized' = [normalized EXCEPT ![i] =
                            [ran |-> TRUE,
                             importsRemoved    |-> out.importsRemoved,
                             directivesRemoved |-> out.directivesRemoved]]
  /\ UNCHANGED << coverageMaps, mapObj, sources, result, pc, cliVars, branchArrays >>

\* the caller changes an object it holds after the merge: a record
\* (record.path = ...) or a map object (delete map[file])
TouchAt(root) ==
  \E file \in DOMAIN mapObj[root] :
    \/ /\ fileObj' = [fileObj EXCEPT ![mapObj[root][file]].path = "changed"]
       /\ UNCHANGED mapObj
    \/ /\ mapObj' = [mapObj EXCEPT ![root] = Delete(@, file)]
       /\ UNCHANGED fileObj

TouchResult ==
  /\ pc = "merged"
  /\ TouchAt(result)
  /\ pc' = "touched"
  /\ UNCHANGED << coverageMaps, sources, result, normalized, cliVars, branchArrays >>

TouchInput ==
  /\ pc = "merged"
  /\ \E i \in 1..Len(coverageMaps) : TouchAt(coverageMaps[i])
  /\ pc' = "touched"
  /\ UNCHANGED << coverageMaps, sources, result, normalized, cliVars, branchArrays >>

(***************************************************************************)
(* Inputs                                                                  *)
(***************************************************************************)
FileA == "a.ts"
FileB == "b.ts"

SeqsUpTo(S, n) == UNION {[1..k -> S] : k \in 0..n}

\* istanbul numbers the entries of a record 0, 1, 2, ...
ObjOf(entries, field) == [id \in 0..(Len(entries) - 1) |-> entries[id + 1][field]]

MkRecord(path, stmts, fns, branches) ==
  [path         |-> path,
   statementMap |-> ObjOf(stmts, "loc"),
   s            |-> ObjOf(stmts, "count"),
   fnMap        |-> ObjOf(fns, "loc"),
   f            |-> ObjOf(fns, "count"),
   branchMap    |-> ObjOf(branches, "loc"),
   b            |-> ObjOf(branches, "count")]

Locations(lines, columns) == [line : lines, column : columns]

Entry(locs, counts) == [loc : locs, count : counts]

Records(path, stmtSeqs, fnSeqs, branchSeqs) ==
  {MkRecord(path, ss, fs, bs) : ss \in stmtSeqs, fs \in fnSeqs, bs \in branchSeqs}

\* a map holds each file or not
Opt(S) == {{}} \cup {{r} : r \in S}

MkMap(optA, optB) ==
  [file \in {x \in Files : (x = FileA /\ optA # {}) \/ (x = FileB /\ optB # {})} |->
     IF file = FileA THEN CHOOSE r \in optA : TRUE ELSE CHOOSE r \in optB : TRUE]

MapValues(recsA, recsB) == {MkMap(oa, ob) : oa \in Opt(recsA), ob \in Opt(recsB)}

\* the state before any call: n distinct map objects holding the contents
InitWith(content, srcA, srcB) ==
  /\ coverageMaps = [i \in 1..Len(content) |-> i]
  /\ mapObj = [i \in 1..Len(content) |-> [file \in DOMAIN content[i] |-> << i, file >>]]
  /\ fileObj = [r \in {<< i, file >> : i \in 1..Len(content), file \in Files} \cap
                     UNION {{<< i, file >> : file \in DOMAIN content[i]} : i \in 1..Len(content)} |->
                  content[r[1]][r[2]]]
  /\ sources = [file \in Files |-> IF file = FileA THEN srcA ELSE srcB]
  /\ result = NoResult
  /\ normalized = [i \in 1..Len(content) |-> NotRun]
  /\ pc = "start"
  /\ NoCommand
  /\ branchArrays = << >>

(***************************************************************************)
(* Bounds of the inputs                                                    *)
(***************************************************************************)
MaxCount == 2     \* execution counts 0..MaxCount
MaxLine == 2      \* start lines 1..MaxLine
MaxCol == 1       \* start columns null, 0..MaxCol
MaxStmts == 2     \* entries of one kind in a record
MaxMaps == 3      \* input maps
MaxItems == 4     \* entries of one kind over all the records of a file
MaxArity == 2     \* outcomes of a branch
MaxBranchCount == 1  \* outcome counts 0..MaxBranchCount

Counts == 0..MaxCount
Columns == {NullCol} \cup 0..MaxCol
AllLocations == Locations(1..MaxLine, Columns)

\* entries a record may have when n maps hold the file
PerRecord(n) ==
  IF n > 0 /\ MaxItems \div n < MaxStmts THEN MaxItems \div n ELSE MaxStmts

(***************************************************************************)
(* Statement family: one file; records with statements at every location   *)
(* and count, or functions on the last line, or one of each.               *)
(***************************************************************************)
StmtEntries == Entry(AllLocations, Counts)
FnEntries == Entry(Locations({MaxLine}, Columns), Counts)

CountRecords(k) ==
  Records(FileA, SeqsUpTo(StmtEntries, k), {<< >>}, {<< >>})
    \cup Records(FileA, {<< >>}, SeqsUpTo(FnEntries, k), {<< >>})
    \cup Records(FileA, SeqsUpTo(StmtEntries, k - 1), SeqsUpTo(FnEntries, k - 1), {<< >>})

InitStmt ==
  \E n \in 0..MaxMaps :
    \E content \in [1..n -> MapValues(CountRecords(PerRecord(n)), {})] :
      InitWith(content, Missing, Missing)

SpecStmt == InitStmt /\ [][SmartMerge]_vars

(***************************************************************************)
(* What the claims speak of                                                *)
(***************************************************************************)
Merged == pc = "merged"

\* the records of the input maps that hold the file, in input order
SourcesOf(file) ==
  LET refs == FileCoverages(coverageMaps, file)
  IN [i \in 1..Len(refs) |-> fileObj[refs[i]]]

\* the merged record of a file of the result
MergedRecord(file) == fileObj[mapObj[result][file]]

\* the files of the result that two or more input maps hold
MergedFiles == {file \in DOMAIN mapObj[result] : Len(SourcesOf(file)) >= 2}

\* the record whose shape the merge took
Baseline(file) == SourcesOf(file)[selectBestSource(SourcesOf(file))]

MaxOf(S) == CHOOSE x \in S : \A y \in S : y <= x

\* the ids of a source's executed entries at a location / on a line
ExecutedAt(locMap, counts, loc) ==
  {k \in DOMAIN locMap : CountOr0(counts, k) > 0 /\ locMap[k] = loc}

ExecutedOnLine(locMap, counts, line) ==
  {k \in DOMAIN locMap : CountOr0(counts, k) > 0 /\ locMap[k].line = line}

\* what one source contributes to a location: the count indexed under the
\* exact key (the executed entry written last), else the line's value (the
\* largest executed count on the line), else nothing
Contribution(locMap, counts, loc) ==
  IF ExecutedAt(locMap, counts, loc) # {}
  THEN {counts[MaxOf(ExecutedAt(locMap, counts, loc))]}
  ELSE IF ExecutedOnLine(locMap, counts, loc.line) # {}
  THEN {MaxOf({counts[k] : k \in ExecutedOnLine(locMap, counts, loc.line)})}
  ELSE {}

StmtContributions(file, loc) ==
  UNION {Contribution(SourcesOf(file)[i].statementMap, SourcesOf(file)[i].s, loc) :
           i \in 1..Len(SourcesOf(file))}

FnContributions(file, loc) ==
  UNION {Contribution(SourcesOf(file)[i].fnMap, SourcesOf(file)[i].f, loc) :
           i \in 1..Len(SourcesOf(file))}

\* C1: in a merged record of a file that two or more maps hold, every
\* statement count and every function count is the maximum of the baseline's
\* own count and the contributions of all the sources holding the file
C1_MaxOverSources ==
  Merged =>
    \A file \in MergedFiles :
      LET m    == MergedRecord(file)
          base == Baseline(file)
      IN /\ \A k \in DOMAIN m.statementMap :
              m.s[k] = MaxOf({CountOr0(base.s, k)} \cup StmtContributions(file, m.statementMap[k]))
         /\ \A k \in DOMAIN m.fnMap :
              m.f[k] = MaxOf({CountOr0(base.f, k)} \cup FnContributions(file, m.fnMap[k]))

\* a merge in which a statement's count was raised above the baseline's by
\* another source's line value (no source has the exact key), and a
\* function's count by a source's exact key
C1_Witness ==
  /\ Merged
  /\ \E file \in MergedFiles :
       LET m    == MergedRecord(file)
           base == Baseline(file)
           src  == SourcesOf(file)
       IN /\ \E k \in DOMAIN m.statementMap :
               /\ m.s[k] > base.s[k]
               /\ \A i \in 1..Len(src) :
                    ExecutedAt(src[i].statementMap, src[i].s, m.statementMap[k]) = {}
          /\ \E k \in DOMAIN m.fnMap :
               /\ m.f[k] > base.f[k]
               /\ \E i \in 1..Len(src) :
                    ExecutedAt(src[i].fnMap, src[i].f, m.fnMap[k]) # {}

(***************************************************************************)
(* Branch family: one file; records with branches on line 1, outcome       *)
(* arrays of every length up to MaxArity.                                  *)
(***************************************************************************)
BranchArrays == SeqsUpTo(0..MaxBranchCount, MaxArity)
BranchEntries == Entry(Locations({1}, 0..MaxCol), BranchArrays)

BranchRecords(k) == Records(FileA, {<< >>}, {<< >>}, SeqsUpTo(BranchEntries, k))

InitBranch ==
  \E n \in 0..MaxMaps :
    \E content \in [1..n -> MapValues(BranchRecords(PerRecord(n)), {})] :
      InitWith(content, Missing, Missing)

SpecBranch == InitBranch /\ [][SmartMerge]_vars

\* Mixed family: two maps, records with one statement, one function and one
\* branch each
MixedRecords ==
  Records(FileA, [1..1 -> Entry(Locations({MaxLine}, {0}), Counts)],
          [1..1 -> Entry(Locations({MaxLine}, {0}), Counts)],
          [1..1 -> BranchEntries])

InitMixed ==
  \E content \in [1..2 -> MapValues(MixedRecords, {})] :
    InitWith(content, Missing, Missing)

\* all three families
InitMerge == InitMixed \/ InitBranch \/ InitStmt

SpecMerge == InitMerge /\ [][SmartMerge]_vars

\* the ids of a source's executed branches at a location / on a line
BranchesAt(rec, loc) ==
  {k \in DOMAIN rec.branchMap : SomePositive(CountsOrEmpty(rec.b, k)) /\ rec.branchMap[k] = loc}

BranchesOnLine(rec, line) ==
  {k \in DOMAIN rec.branchMap :
     SomePositive(CountsOrEmpty(rec.b, k)) /\ rec.branchMap[k].line = line}

\* the counts array a source's branch index yields for a location: the one
\* under the exact key, else the line's (its first executed branch), else none
BranchContribution(rec, loc) ==
  IF BranchesAt(rec, loc) # {} THEN {rec.b[MaxOf(BranchesAt(rec, loc))]}
  ELSE IF BranchesOnLine(rec, loc.line) # {} THEN {rec.b[MinOf(BranchesOnLine(rec, loc.line))]}
  ELSE {}

\* counts[i] || 0
At0(counts, idx) == IF idx <= Len(counts) THEN counts[idx] ELSE 0

\* C2: every index of a merged branch counts array is the maximum of the
\* baseline's count and the counts of every source whose branch index
\* matches the location
C2_BranchMaxOverSources ==
  Merged =>
    \A file \in MergedFiles :
      LET m    == MergedRecord(file)
          base == Baseline(file)
          src  == SourcesOf(file)
      IN \A k \in DOMAIN m.branchMap :
           \A idx \in 1..Len(m.b[k]) :
             m.b[k][idx] =
               MaxOf({base.b[k][idx]} \cup
                     UNION {{At0(c, idx) : c \in BranchContribution(src[i], m.branchMap[k])} :
                              i \in 1..Len(src)})

\* C3: a matching source with a shorter counts array does not lower what an
\* earlier matching source raised at an index beyond its length
C3_ShorterSourceKeepsRaised ==
  Merged =>
    \A file \in MergedFiles :
      LET m   == MergedRecord(file)
          src == SourcesOf(file)
      IN \A k \in DOMAIN m.branchMap :
           \A i, j \in 1..Len(src) :
             \A ci \in BranchContribution(src[i], m.branchMap[k]) :
               \A cj \in BranchContribution(src[j], m.branchMap[k]) :
                 \A idx \in 1..Len(m.b[k]) :
                   (i < j /\ Len(cj) < idx) => m.b[k][idx] >= At0(ci, idx)

(***************************************************************************)
(* Relations between calls                                                 *)
(***************************************************************************)
\* two result values with the same files, ids and counts
CountEquivalent(v, w) ==
  /\ DOMAIN v = DOMAIN w
  /\ \A file \in DOMAIN v :
       /\ DOMAIN v[file].statementMap = DOMAIN w[file].statementMap
       /\ DOMAIN v[file].fnMap = DOMAIN w[file].fnMap
       /\ DOMAIN v[file].branchMap = DOMAIN w[file].branchMap
       /\ v[file].s = w[file].s
       /\ v[file].f = w[file].f
       /\ v[file].b = w[file].b

\* C4: merging [A] and merging [A, A] give the same files, ids and counts
C4_SelfMergeIdempotent ==
  (Merged /\ Len(coverageMaps) = 1) =>
    CountEquivalent(MapValue(result),
                    GraphValue(smartMergeCoverage(<< coverageMaps[1], coverageMaps[1] >>)))

Orders(n) == {p \in [1..n -> 1..n] : \A i, j \in 1..n : p[i] = p[j] => i = j}

\* the counts a record carries at a start location
CountsAt(locMap, counts, loc) == {counts[k] : k \in {x \in DOMAIN locMap : locMap[x] = loc}}

\* every start location that both records have carries the same counts in both
SameCountsAtSameLocations(locMap1, counts1, locMap2, counts2) ==
  \A loc \in {locMap1[k] : k \in DOMAIN locMap1} \cap {locMap2[k] : k \in DOMAIN locMap2} :
    CountsAt(locMap1, counts1, loc) = CountsAt(locMap2, counts2, loc)

\* C5: the merged count of a statement or function start location is the
\* same for every order of the input maps
C5_OrderIndependentCounts ==
  Merged =>
    \A p \in Orders(Len(coverageMaps)) :
      LET other == GraphValue(smartMergeCoverage([i \in 1..Len(coverageMaps) |->
                                                    coverageMaps[p[i]]]))
      IN \A file \in MergedFiles :
           /\ SameCountsAtSameLocations(MergedRecord(file).statementMap, MergedRecord(file).s,
                                        other[file].statementMap, other[file].s)
           /\ SameCountsAtSameLocations(MergedRecord(file).fnMap, MergedRecord(file).f,
                                        other[file].fnMap, other[file].f)

\* the positions of the sources with items and no statement at line 1,
\* column 0 or null
WithoutPseudo(src) ==
  {i \in 1..Len(src) :
     /\ getTotalItems(src[i]) > 0
     /\ \A k \in DOMAIN src[i].statementMap :
          ~(src[i].statementMap[k].line = 1 /\ src[i].statementMap[k].column \in {0, NullCol})}

WithItems(src) == {i \in 1..Len(src) : getTotalItems(src[i]) > 0}

C9_NeverBelowBaseline ==
  Merged =>
    \A file \in MergedFiles :
      LET m    == MergedRecord(file)
          base == Baseline(file)
      IN /\ \A k \in DOMAIN base.s : m.s[k] >= base.s[k] /\ m.s[k] >= 0
         /\ \A k \in DOMAIN base.f : m.f[k] >= base.f[k] /\ m.f[k] >= 0
         /\ \A k \in DOMAIN base.b :
              /\ Len(m.b[k]) = Len(base.b[k])
              /\ \A idx \in 1..Len(base.b[k]) :
                   m.b[k][idx] >= base.b[k][idx] /\ m.b[k][idx] >= 0

\* a merge in which another source's statement, function and branch counts
\* at the baseline's locations are positive and lower than the baseline's,
\* and the merged record keeps the baseline's
C9_Witness ==
  /\ Merged
  /\ \E file \in MergedFiles :
       LET m    == MergedRecord(file)
           base == Baseline(file)
           src  == SourcesOf(file)
       IN \E i \in 1..Len(src) :
            /\ \E k \in DOMAIN base.s :
                 /\ \E c \in Contribution(src[i].statementMap, src[i].s, base.statementMap[k]) :
                      c < base.s[k]
                 /\ m.s[k] = base.s[k]
            /\ \E k \in DOMAIN base.f :
                 /\ \E c \in Contribution(src[i].fnMap, src[i].f, base.fnMap[k]) : c < base.f[k]
                 /\ m.f[k] = base.f[k]
            /\ \E k \in DOMAIN base.b :
                 \E c \in BranchContribution(src[i], base.branchMap[k]) :
                   \E idx \in 1..Len(base.b[k]) :
                     At0(c, idx) < base.b[k][idx] /\ m.b[k][idx] = base.b[k][idx]

(***************************************************************************)
(* Two-file family: both files, small records of every kind; every action. *)
(***************************************************************************)
\* a source text whose first line is a directive and whose second is code
DirectiveText == Text(<< << "'", "u", "s", "e", " ", "c", "l", "i", "e", "n", "t", "'" >>, << "x", " ", "=", " ", "1" >> >>)

\* a record as a jsdom run writes it (a pseudo-statement at line 1, column
\* 0) and one as a browser run does (two entries on line 2)
JsdomRecord(path) ==
  MkRecord(path,
    << [loc |-> [line |-> 1, column |-> 0], count |-> 1],
       [loc |-> [line |-> 2, column |-> 0], count |-> 0] >>,
    << [loc |-> [line |-> 2, column |-> 0], count |-> 1] >>,
    << [loc |-> [line |-> 2, column |-> 0], count |-> << 1, 0 >>] >>)

BrowserRecord(path) ==
  MkRecord(path,
    << [loc |-> [line |-> 2, column |-> 0], count |-> 0],
       [loc |-> [line |-> 2, column |-> 1], count |-> MaxCount] >>,
    << [loc |-> [line |-> 2, column |-> 0], count |-> 0] >>,
    << [loc |-> [line |-> 2, column |-> 0], count |-> << 0, 1 >>] >>)

SampleRecords(path) == {JsdomRecord(path), BrowserRecord(path)}

Init ==
  \E n \in 0..MaxMaps :
    \E content \in [1..n -> MapValues(SampleRecords(FileA), SampleRecords(FileB))] :
      InitWith(content, DirectiveText, Missing)

Next ==
  \/ SmartMerge
  \/ \E i \in 1..Len(coverageMaps) : Normalize(i)
  \/ TouchResult
  \/ TouchInput

Spec == Init /\ [][Next]_vars

\* the record references a map object holds
RecRefs(mapRef) == {mapObj[mapRef][file] : file \in DOMAIN mapObj[mapRef]}

\* the result is made of objects no argument is made of
NoSharedStructure ==
  \A i \in 1..Len(coverageMaps) :
    /\ result # coverageMaps[i]
    /\ RecRefs(result) \cap RecRefs(coverageMaps[i]) = {}

\* C7: the merge of no map is the empty map; the merge of one map equals it
\* in value and shares no object with it, so that a later change of either
\* leaves the other as it was
C7_ZeroAndOneMap ==
  /\ (Merged /\ Len(coverageMaps) = 0) => DOMAIN mapObj[result] = {}
  /\ (Merged /\ Len(coverageMaps) = 1) =>
       /\ MapValue(result) = MapValue(coverageMaps[1])
       /\ NoSharedStructure
  /\ (pc = "touched" /\ Len(coverageMaps) = 1) =>
       /\ MapValue(result) # MapValue(coverageMaps[1])
       /\ NoSharedStructure

\* one map was merged, then a record of the result was changed, and the
\* argument's record still has its path
C7_Witness ==
  /\ pc = "touched"
  /\ Len(coverageMaps) = 1
  /\ \E file \in DOMAIN mapObj[result] :
       /\ file \in DOMAIN mapObj[coverageMaps[1]]
       /\ MergedRecord(file).path = "changed"
       /\ fileObj[mapObj[coverageMaps[1]][file]].path = file

\* C8: the files of the result are the files of all the maps, and the record
\* of a file that exactly one map holds is that map's record, unchanged
C8_UnionAndSingleSourceCopy ==
  Merged =>
    /\ DOMAIN mapObj[result] = UNION {DOMAIN mapObj[coverageMaps[i]] : i \in 1..Len(coverageMaps)}
    /\ \A file \in DOMAIN mapObj[result] :
         Len(SourcesOf(file)) = 1 => MergedRecord(file) = SourcesOf(file)[1]

\* three maps merged: one file held by the second map only, another by all,
\* and the single-source record is one the merge logic would have changed
C8_Witness ==
  /\ Merged
  /\ Len(coverageMaps) = 3
  /\ DOMAIN mapObj[coverageMaps[1]] = {FileA}
  /\ DOMAIN mapObj[coverageMaps[2]] = {FileA, FileB}
  /\ DOMAIN mapObj[coverageMaps[3]] = {FileA}
  /\ DOMAIN mapObj[result] = {FileA, FileB}
  /\ MergedRecord(FileB) = BrowserRecord(FileB)
  /\ mergeFileCoverages(<< BrowserRecord(FileB), BrowserRecord(FileB) >>) # BrowserRecord(FileB)

(***************************************************************************)
(* Normalisation family: one map; statements on lines 1..MaxLine+1 of      *)
(* source texts of up to MaxLine lines.                                    *)
(***************************************************************************)
\* source lines that are import statements once trimmed
ImportLines ==
  { << "i", "m", "p", "o", "r", "t", " ", "x" >>,
    << "i", "m", "p", "o", "r", "t", "{", "x", "}" >>,
    << " ", " ", "i", "m", "p", "o", "r", "t", " ", "x" >>,
    << "i", "m", "p", "o", "r", "t", " ", "x", "\r" >> }

\* source lines that are one of the eight directive literals once trimmed
DirectiveLines ==
  { << "'", "u", "s", "e", " ", "s", "e", "r", "v", "e", "r", "'" >>,
    << "\"", "u", "s", "e", " ", "s", "e", "r", "v", "e", "r", "\"" >>,
    << "'", "u", "s", "e", " ", "s", "e", "r", "v", "e", "r", "'", ";" >>,
    << "\"", "u", "s", "e", " ", "s", "e", "r", "v", "e", "r", "\"", ";" >>,
    << "'", "u", "s", "e", " ", "c", "l", "i", "e", "n", "t", "'" >>,
    << "\"", "u", "s", "e", " ", "c", "l", "i", "e", "n", "t", "\"" >>,
    << "'", "u", "s", "e", " ", "c", "l", "i", "e", "n", "t", "'", ";" >>,
    << "\"", "u", "s", "e", " ", "c", "l", "i", "e", "n", "t", "\"", ";" >>,
    << "\t", "'", "u", "s", "e", " ", "c", "l", "i", "e", "n", "t", "'", " " >>,
    << "\"", "u", "s", "e", " ", "s", "e", "r", "v", "e", "r", "\"", ";", "\r" >> }

\* source lines that are neither
OtherLines ==
  { << "i", "m", "p", "o", "r", "t", "x" >>,
    << "x", " ", "i", "m", "p", "o", "r", "t", " " >>,
    << "u", "s", "e", " ", "c", "l", "i", "e", "n", "t" >>,
    << "'", "u", "s", "e", " ", "c", "l", "i", "e", "n", "t", "'", " ", ";" >>,
    << "'", "u", "s", "e", " ", "s", "t", "r", "i", "c", "t", "'" >>,
    << "x", " ", "=", " ", "1" >>,
    <<  >> }

LineTexts == ImportLines \cup DirectiveLines \cup OtherLines

SourceTexts == {Text(lines) : lines \in UNION {[1..k -> LineTexts] : k \in 1..MaxLine}}

NormStmtEntries == Entry(Locations(1..(MaxLine + 1), {0}), {1})
NormOtherEntries == Entry(Locations({1}, {0}), {1})
NormBranchEntries == Entry(Locations({1}, {0}), {<< 1 >>})

\* every record has a function and a branch on line 1
NormRecords ==
  Records(FileA, SeqsUpTo(NormStmtEntries, MaxStmts),
          [1..1 -> NormOtherEntries], [1..1 -> NormBranchEntries])

NormRecordsB == Records(FileB, [1..1 -> NormOtherEntries], {<< >>}, {<< >>})

InitNorm ==
  \E content \in [1..1 -> MapValues(NormRecords, NormRecordsB)] :
    \E srcA \in SourceTexts \cup {Missing, Unreadable} :
      \E srcB \in {Missing, Text(<< << "i", "m", "p", "o", "r", "t", " ", "x" >> >>), Text(<< << "'", "u", "s", "e", " ", "c", "l", "i", "e", "n", "t", "'" >> >>)} :
        InitWith(content, srcA, srcB)

NextNorm == \E i \in 1..Len(coverageMaps) : Normalize(i)

SpecNorm == InitNorm /\ [][NextNorm]_vars

\* what the claim expects of a statement starting on a line of a file,
\* read off the raw source line
ExpectedClass(file, line) ==
  LET lines == sources[file].lines
  IN IF sources[file].kind # "text" \/ line > Len(lines) THEN "keep"
     ELSE IF lines[line] \in ImportLines THEN "import"
     ELSE IF lines[line] \in DirectiveLines THEN "directive"
     ELSE "keep"

\* a step in which normalizeCoverage(coverageMaps[i]) returned
NormalizeStep(i) ==
  /\ pc = "start" /\ pc' = "start"
  /\ normalized'[i].ran
  /\ normalized'[i] # normalized[i] \/ fileObj' # fileObj

\* the statement entries the step deleted from the records of map m, by class
DeletedOfClass(m, class) ==
  {<< file, k >> \in (DOMAIN mapObj[m]) \X (0..(MaxStmts + 1)) :
     /\ k \in DOMAIN fileObj[mapObj[m][file]].statementMap
     /\ k \notin DOMAIN fileObj'[mapObj[m][file]].statementMap
     /\ ExpectedClass(file, fileObj[mapObj[m][file]].statementMap[k].line) = class}

\* C10: for a file whose source text is readable, normalizeCoverage deletes
\* a statement entry, from statementMap and from s, exactly when the trimmed
\* source line at its start line is an import or a directive literal; the
\* two totals it returns are the numbers of entries deleted in each class
C10_NormalizeDeletesExactly ==
  [][\A i \in 1..Len(coverageMaps) :
       NormalizeStep(i) =>
         LET m == coverageMaps[i]
         IN /\ \A file \in DOMAIN mapObj[m] :
                 LET pre  == fileObj[mapObj[m][file]]
                     post == fileObj'[mapObj[m][file]]
                 IN /\ DOMAIN post.statementMap \subseteq DOMAIN pre.statementMap
                    /\ DOMAIN post.s = DOMAIN post.statementMap
                    /\ sources[file].kind = "text" =>
                         \A k \in DOMAIN pre.statementMap :
                           (k \notin DOMAIN post.statementMap)
                             <=> (ExpectedClass(file, pre.statementMap[k].line) # "keep")
            /\ normalized'[i].importsRemoved = Cardinality(DeletedOfClass(m, "import"))
            /\ normalized'[i].directivesRemoved = Cardinality(DeletedOfClass(m, "directive"))
            /\ normalized'[i].importsRemoved + normalized'[i].directivesRemoved
                 = Cardinality(DeletedOfClass(m, "import") \cup DeletedOfClass(m, "directive")
                                 \cup DeletedOfClass(m, "keep"))
    ]_vars

\* a file whose first line is a directive literal and whose second is an
\* import, with one statement on each, normalised: both entries are gone,
\* one directive and one import are reported
C10_Witness ==
  /\ pc = "start"
  /\ Len(coverageMaps) = 1
  /\ DOMAIN mapObj[coverageMaps[1]] = {FileA}
  /\ sources[FileA].kind = "text"
  /\ Len(sources[FileA].lines) = 2
  /\ sources[FileA].lines[1] \in DirectiveLines
  /\ sources[FileA].lines[2] \in ImportLines
  /\ normalized[1] = [ran |-> TRUE, importsRemoved |-> 1, directivesRemoved |-> 1]
  /\ DOMAIN fileObj[mapObj[coverageMaps[1]][FileA]].statementMap = {}
  /\ DOMAIN fileObj[mapObj[coverageMaps[1]][FileA]].s = {}

\* C11: once normalizeCoverage has run on a map, running it again on the
\* same map with the same source texts removes nothing (both totals are 0)
\* and leaves every record of the map as it is
C11_NormalizeIdempotent ==
  \A i \in 1..Len(coverageMaps) :
    normalized[i].ran =>
      LET m   == coverageMaps[i]
          out == normalizeCoverage(m)
      IN /\ out.importsRemoved = 0
         /\ out.directivesRemoved = 0
         /\ \A file \in DOMAIN mapObj[m] :
              out.perFile[file].data = fileObj[mapObj[m][file]]

\* a second pass has returned zero removals on a record whose statement 0,
\* on an import line, the first pass deleted
C11_Witness ==
  /\ pc = "start"
  /\ Len(coverageMaps) = 1
  /\ FileA \in DOMAIN mapObj[coverageMaps[1]]
  /\ sources[FileA].kind = "text"
  /\ sources[FileA].lines[1] \in ImportLines
  /\ normalized[1] = [ran |-> TRUE, importsRemoved |-> 0, directivesRemoved |-> 0]
  /\ DOMAIN fileObj[mapObj[coverageMaps[1]][FileA]].statementMap = {1}
  /\ DOMAIN fileObj[mapObj[coverageMaps[1]][FileA]].s = {1}

(***************************************************************************)
(* Unreadable-source family: one map of two files; the source of one file  *)
(* is missing or cannot be read, the other file's may be a text.           *)
(***************************************************************************)
FileLineTexts ==
  { << "i", "m", "p", "o", "r", "t", " ", "x" >>,
    << "'", "u", "s", "e", " ", "c", "l", "i", "e", "n", "t", "'" >>,
    << "x", " ", "=", " ", "1" >> }

FileTexts == {Text(lines) : lines \in UNION {[1..k -> FileLineTexts] : k \in 1..MaxLine}}

FileStmtEntries == Entry(Locations(1..MaxLine, {0}), {1})

FileRecords(path) ==
  Records(path, SeqsUpTo(FileStmtEntries, MaxStmts), [1..1 -> NormOtherEntries], {<< >>})

InitNormFiles ==
  \E content \in [1..1 -> MapValues(FileRecords(FileA), FileRecords(FileB))] :
    \E bad \in {Missing, Unreadable} :
      \E other \in FileTexts \cup {Missing} :
        \/ InitWith(content, bad, other)
        \/ InitWith(content, other, bad)

SpecNormFiles == InitNormFiles /\ [][NextNorm]_vars

\* the statement entries the step deleted from the records of map m whose
\* file has a readable source
DeletedOfReadable(m) ==
  {<< file, k >> \in (DOMAIN mapObj[m]) \X (0..(MaxStmts + 1)) :
     /\ sources[file].kind = "text"
     /\ k \in DOMAIN fileObj[mapObj[m][file]].statementMap
     /\ k \notin DOMAIN fileObj'[mapObj[m][file]].statementMap}

\* C12: normalizeCoverage returns when the source of a file is missing or
\* cannot be read; the record of that file is left exactly as it was and
\* adds nothing to the totals, while the files with a readable source are
\* normalised as usual
C12_UnreadableSourceSkipped ==
  [][\A i \in 1..Len(coverageMaps) :
       NormalizeStep(i) =>
         LET m == coverageMaps[i]
         IN /\ \A file \in DOMAIN mapObj[m] :
                 LET pre  == fileObj[mapObj[m][file]]
                     post == fileObj'[mapObj[m][file]]
                 IN IF sources[file].kind # "text"
                    THEN post = pre
                    ELSE /\ \A k \in DOMAIN pre.statementMap :
                              (k \notin DOMAIN post.statementMap)
                                <=> (ExpectedClass(file, pre.statementMap[k].line) # "keep")
                         /\ DOMAIN post.s = DOMAIN post.statementMap
            /\ normalized'[i].importsRemoved + normalized'[i].directivesRemoved
                 = Cardinality(DeletedOfReadable(m))
    ]_vars

\* a pass over a map of two files has returned: the file whose source cannot
\* be read still has both its statements, the first of them on line 1, and
\* the other file lost its statement on the import line
C12_Witness ==
  /\ pc = "start"
  /\ Len(coverageMaps) = 1
  /\ DOMAIN mapObj[coverageMaps[1]] = {FileA, FileB}
  /\ sources[FileA] = Unreadable
  /\ sources[FileB].kind = "text"
  /\ sources[FileB].lines[1] \in ImportLines
  /\ normalized[1] = [ran |-> TRUE, importsRemoved |-> 1, directivesRemoved |-> 0]
  /\ DOMAIN fileObj[mapObj[coverageMaps[1]][FileA]].statementMap = {0, 1}
  /\ fileObj[mapObj[coverageMaps[1]][FileA]].statementMap[0].line = 1
  /\ DOMAIN fileObj[mapObj[coverageMaps[1]][FileB]].statementMap = {1}

(***************************************************************************)
(* The command line (cli.ts) and mergeCoverage (index.ts)                  *)
(* An argument and a path are sequences of one-character strings.          *)
(***************************************************************************)
ArgHelpShort    == << "-", "h" >>
ArgHelp         == << "-", "-", "h", "e", "l", "p" >>
ArgVersionShort == << "-", "v" >>
ArgVersion      == << "-", "-", "v", "e", "r", "s", "i", "o", "n" >>
ArgOutputShort  == << "-", "o" >>
ArgOutput       == << "-", "-", "o", "u", "t", "p", "u", "t" >>
ArgNormalize    == << "-", "-", "n", "o", "r", "m", "a", "l", "i", "z", "e" >>
Dash            == << "-" >>

\* const result: ParsedArgs = {...}; null is the empty set, a value {value}
NewParsedArgs ==
  [inputDirs |-> << >>, outputDir |-> {}, normalize |-> FALSE,
   help |-> FALSE, version |-> FALSE, error |-> {}]

\* the while loop of parseArgs from position i (1-based) on
RECURSIVE ParseLoop(_, _, _)
ParseLoop(args, i, res) ==
  IF i > Len(args) THEN res
  ELSE LET arg == args[i]
       IN IF arg = ArgHelpShort \/ arg = ArgHelp
          THEN [res EXCEPT !.help = TRUE]
          ELSE IF arg = ArgVersionShort \/ arg = ArgVersion
          THEN [res EXCEPT !.version = TRUE]
          ELSE IF arg = ArgOutputShort \/ arg = ArgOutput
          THEN IF i + 1 > Len(args)
               THEN [res EXCEPT !.error = {"Missing output directory after -o/--output"}]
               ELSE ParseLoop(args, i + 2, [res EXCEPT !.outputDir = {args[i + 1]}])
          ELSE IF arg = ArgNormalize
          THEN ParseLoop(args, i + 1, [res EXCEPT !.normalize = TRUE])
          ELSE IF startsWith(arg, Dash)
          THEN [res EXCEPT !.error = {"Unknown option"}]
          ELSE ParseLoop(args, i + 1, [res EXCEPT !.inputDirs = Append(@, arg)])

parseArgs(args) == ParseLoop(args, 1, NewParsedArgs)

\* path.resolve against the working directory
Cwd == << "/" >>
resolve(path) == IF startsWith(path, Cwd) THEN path ELSE Cwd \o path

\* what a directory holds: nothing at that path, a directory without
\* coverage-final.json, or one with it (its text parses to value, or not)
NoDir  == [kind |-> "nodir", ok |-> FALSE, value |-> EmptyObj]
NoFile == [kind |-> "nofile", ok |-> FALSE, value |-> EmptyObj]
Malformed == [kind |-> "file", ok |-> FALSE, value |-> EmptyObj]
Json(value) == [kind |-> "file", ok |-> TRUE, value |-> value]

DirState(dir) == IF resolve(dir) \in DOMAIN disk THEN disk[resolve(dir)] ELSE NoDir

\* existsSync(resolvedDir)
existsDir(dir) == DirState(dir).kind # "nodir"

\* existsSync(<dir>/coverage-final.json) answering yes for every path
existsCoverageFileAlways(dir) == DirState(dir).kind \in {"nodir", "nofile", "file"}

\* existsSync(<dir>/coverage-final.json)
existsCoverageFile(dir) == DirState(dir).kind = "file"

\* readFileSync(coverageFile, 'utf-8'): throws when there is no such file
readFileSync(dir) ==
  IF DirState(dir).kind = "file"
  THEN [threw |-> FALSE, raw |-> DirState(dir)]
  ELSE [threw |-> TRUE, raw |-> Malformed]

\* a parse that yields an empty map for a text that is not JSON
JSONparseLenient(raw) == [threw |-> FALSE, value |-> raw.value]

\* JSON.parse(rawData): throws on a text that is not JSON
JSONparse(raw) ==
  IF raw.ok THEN [threw |-> FALSE, value |-> raw.value]
  ELSE [threw |-> TRUE, value |-> EmptyObj]

\* the loop of main that validates the input directories
RECURSIVE ValidDirs(_)
ValidDirs(dirs) ==
  IF dirs = << >> THEN << >>
  ELSE LET resolvedDir == resolve(Head(dirs))
       IN IF ~existsDir(resolvedDir) THEN ValidDirs(Tail(dirs))
          ELSE IF ~existsCoverageFile(resolvedDir) THEN ValidDirs(Tail(dirs))
          ELSE << resolvedDir >> \o ValidDirs(Tail(dirs))

\* const { normalize = true } = options
NormalizeOption(opts) ==
  IF "normalize" \in DOMAIN opts THEN opts.normalize ELSE TRUE

\* reporters = ['json', 'lcov', 'html']
Reporters == {"json", "lcov", "html"}

\* process.exit(code) in main
Exit(code) ==
  /\ outcome' = code
  /\ pc' = "done"
  /\ UNCHANGED << options, todo >>

\* main() up to the call of mergeCoverage
Main ==
  /\ pc = "main"
  /\ LET parsed == parseArgs(argv)
     IN IF Len(argv) = 0 THEN Exit("exit0")
        ELSE IF parsed.error # {} THEN Exit("exit1")
        ELSE IF parsed.help THEN Exit("exit0")
        ELSE IF parsed.version THEN Exit("exit0")
        ELSE IF Len(parsed.inputDirs) < 2 THEN Exit("exit1")
        ELSE IF parsed.outputDir = {} \/ parsed.outputDir = {<< >>} THEN Exit("exit1")
        ELSE LET validDirs == ValidDirs(parsed.inputDirs)
             IN IF Len(validDirs) < 2 THEN Exit("exit1")
                ELSE /\ options' = [inputDirs |-> validDirs,
                                    outputDir |-> resolve(CHOOSE d \in parsed.outputDir : TRUE),
                                    normalize |-> parsed.normalize]
                     /\ todo' = validDirs
                     /\ pc' = "load"
                     /\ UNCHANGED outcome
  /\ UNCHANGED << coverageMaps, mapObj, fileObj, sources, result, normalized,
                  caller, argv, disk, written, branchArrays >>

\* the promise of mergeCoverage is rejected; main catches it and exits 1
Reject ==
  /\ outcome' = IF caller = "cli" THEN "exit1" ELSE "rejected"
  /\ pc' = "done"

\* one round of the loading loop up to JSON.parse: skip the directory, fail,
\* or hold the parsed map (a new object, not yet in coverageMaps)
Load ==
  /\ pc = "load"
  /\ todo # << >>
  /\ LET dir == Head(todo)
         ref == Len(coverageMaps) + 1
     IN IF ~existsCoverageFile(dir)
        THEN /\ todo' = Tail(todo)
             /\ UNCHANGED << mapObj, fileObj, outcome, pc >>
        ELSE LET read   == readFileSync(dir)
                 parsed == JSONparse(read.raw)
             IN IF read.threw \/ parsed.threw
                THEN /\ Reject
                     /\ UNCHANGED << mapObj, fileObj, todo >>
                ELSE /\ mapObj' = Put(mapObj, ref,
                                      [file \in DOMAIN parsed.value |-> << ref, file >>])
                     /\ fileObj' = [r \in (DOMAIN fileObj)
                                           \cup {<< ref, file >> : file \in DOMAIN parsed.value} |->
                                      IF r[1] = ref THEN parsed.value[r[2]] ELSE fileObj[r]]
                     /\ pc' = "parsed"
                     /\ UNCHANGED << todo, outcome >>
  /\ UNCHANGED << coverageMaps, sources, result, normalized,
                  caller, argv, options, disk, written, branchArrays >>

\* the rest of the round: normalise the parsed map in place if asked to,
\* then coverageMaps.push(coverageData)
NormalizePush ==
  /\ pc = "parsed"
  /\ LET ref == Len(coverageMaps) + 1
         out == normalizeCoverage(ref)
     IN /\ IF NormalizeOption(options)
           THEN /\ fileObj' = [r \in DOMAIN fileObj |->
                                 IF r[1] = ref THEN out.perFile[r[2]].data ELSE fileObj[r]]
                /\ normalized' = Append(normalized,
                                   [ran |-> TRUE,
                                    importsRemoved    |-> out.importsRemoved,
                                    directivesRemoved |-> out.directivesRemoved])
           ELSE /\ UNCHANGED fileObj
                /\ normalized' = Append(normalized, NotRun)
        /\ coverageMaps' = Append(coverageMaps, ref)
  /\ todo' = Tail(todo)
  /\ pc' = "load"
  /\ UNCHANGED << mapObj, sources, result, caller, argv, options, disk, written, outcome,
                  branchArrays >>

\* const mergedData = smartMergeCoverage(coverageMaps)
MergeLoaded ==
  /\ pc = "load"
  /\ todo = << >>
  /\ Install(smartMergeCoverage(coverageMaps))
  /\ pc' = "write"
  /\ UNCHANGED << coverageMaps, sources, normalized, cliVars >>

\* mkdirSync(outputDir); writeFileSync(<outputDir>/coverage-final.json)
WriteJson ==
  /\ pc = "write"
  /\ written' = written \cup {"coverage-final.json"}
  /\ pc' = "report"
  /\ UNCHANGED << coverageMaps, mapObj, fileObj, sources, result, normalized,
                  caller, argv, options, disk, todo, outcome, branchArrays >>

\* the reports, each in its own try/catch (a report that fails is only
\* warned about), then mergeCoverage resolves and main returns
Report ==
  /\ pc = "report"
  /\ \E failed \in SUBSET Reporters :
       written' = written \cup (Reporters \ failed)
  /\ outcome' = IF caller = "cli" THEN "exit0" ELSE "resolved"
  /\ pc' = "done"
  /\ UNCHANGED << coverageMaps, mapObj, fileObj, sources, result, normalized,
                  caller, argv, options, disk, todo, branchArrays >>

(***************************************************************************)
(* Command family: three directories, each absent, without artifact, with  *)
(* an unparsable or a parsable one; runs from the command line and calls   *)
(* of mergeCoverage from a program.                                        *)
(***************************************************************************)
D1 == << "d", "1" >>
D2 == << "d", "2" >>
D3 == << "d", "3" >>
OutDir == << "o", "u", "t" >>
ArgNoNormalize == << "-", "-", "n", "o", "-", "n", "o", "r", "m", "a", "l", "i", "z", "e" >>
ArgUnknown == << "-", "x" >>

\* the coverage map a run left in a directory
DirMap(dir) ==
  IF dir = D1 THEN MkMap({JsdomRecord(FileA)}, {})
  ELSE IF dir = D2 THEN MkMap({BrowserRecord(FileA)}, {})
  ELSE MkMap({JsdomRecord(FileA)}, {BrowserRecord(FileB)})

Disks ==
  {d \in [{resolve(D1), resolve(D2), resolve(D3)} ->
            {NoDir, NoFile, Malformed, Json(DirMap(D1)), Json(DirMap(D2)), Json(DirMap(D3))}] :
     \A dir \in {D1, D2, D3} :
       d[resolve(dir)] \in {NoDir, NoFile, Malformed, Json(DirMap(dir))}}

DirLists ==
  { << >>, << D1 >>, << D1, D2 >>, << D2, D1 >>, << D1, D2, D3 >>, << D3, D1, D2 >> }

ArgLists ==
  {pre \o dirs \o mid \o outp :
     pre  \in {<< >>, << ArgNormalize >>},
     dirs \in DirLists,
     mid  \in {<< >>, << ArgNormalize >>, << ArgNoNormalize >>, << ArgHelpShort >>,
               << ArgVersion >>, << ArgUnknown >>},
     outp \in {<< >>, << ArgOutputShort >>, << ArgOutputShort, OutDir >>,
               << ArgOutput, OutDir >>}}

\* the options a program calls mergeCoverage with: normalize given or not
CallOptions ==
  {[inputDirs |-> dirs, outputDir |-> OutDir] : dirs \in DirLists}
    \cup {[inputDirs |-> dirs, outputDir |-> OutDir, normalize |-> n] :
            dirs \in DirLists, n \in BOOLEAN}

InitCli ==
  /\ coverageMaps = << >>
  /\ mapObj = << >>
  /\ fileObj = << >>
  /\ sources = [file \in Files |-> IF file = FileA THEN DirectiveText ELSE Missing]
  /\ result = NoResult
  /\ normalized = << >>
  /\ written = {}
  /\ outcome = "none"
  /\ branchArrays = << >>
  /\ disk \in Disks
  /\ \/ /\ caller = "cli"
        /\ argv \in ArgLists
        /\ options = << >>
        /\ todo = << >>
        /\ pc = "main"
     \/ /\ caller = "program"
        /\ argv = << >>
        /\ options \in CallOptions
        /\ todo = options.inputDirs
        /\ pc = "load"

NextCli == Main \/ Load \/ NormalizePush \/ MergeLoaded \/ WriteJson \/ Report

SpecCli == InitCli /\ [][NextCli]_vars

\* mergeCoverage has been called
Called == "inputDirs" \in DOMAIN options

\* the directories of a list that hold a coverage-final.json, in order
HoldsArtifact(dir) == DirState(dir).kind = "file"

WithArtifact(dirs) == SelectSeq(dirs, HoldsArtifact)

AnyMalformed(dirs) == \E j \in 1..Len(dirs) : DirState(dirs[j]) = Malformed

\* C13: when the artifact of an input directory does not parse, mergeCoverage
\* fails as a whole: its promise is rejected (the command line exits with
\* code 1), no merged map exists and nothing has been written, at any
\* point of the run; and whenever something has been written, every input
\* with an artifact has been loaded and parsed
C13_MalformedInputFailsWhole ==
  /\ (Called /\ AnyMalformed(options.inputDirs)) =>
       /\ written = {}
       /\ result = NoResult
       /\ pc \notin {"write", "report"}
       /\ pc = "done" => outcome = (IF caller = "cli" THEN "exit1" ELSE "rejected")
  /\ written # {} =>
       /\ Called
       /\ todo = << >>
       /\ Len(coverageMaps) = Len(WithArtifact(options.inputDirs))

\* a program's call ended rejected after the first directory had been
\* loaded and the second failed to parse; nothing is written
C13_Witness ==
  /\ pc = "done"
  /\ caller = "program"
  /\ Len(options.inputDirs) >= 2
  /\ DirState(options.inputDirs[1]).ok
  /\ DirState(options.inputDirs[2]) = Malformed
  /\ Len(coverageMaps) = 1
  /\ outcome = "rejected"
  /\ written = {}

\* the command line asks for a merge: main gets as far as validating the
\* input directories
MergeRequested ==
  LET parsed == parseArgs(argv)
  IN IF caller = "cli"
     THEN /\ Len(argv) > 0
          /\ parsed.error = {}
          /\ ~parsed.help
          /\ ~parsed.version
          /\ Len(parsed.inputDirs) >= 2
          /\ parsed.outputDir # {}
     ELSE Called

\* the input directories the user named
RequestedDirs == IF caller = "cli" THEN parseArgs(argv).inputDirs ELSE options.inputDirs

SomeWithoutArtifact ==
  \E j \in 1..Len(RequestedDirs) : ~HoldsArtifact(RequestedDirs[j])

\* the map mergeCoverage holds for an artifact: its content, normalised or not
LoadedValue(value) ==
  IF NormalizeOption(options)
  THEN [file \in DOMAIN value |-> normalizeFileCoverage(sources[file], value[file]).data]
  ELSE value

\* the run ended well, having merged the maps of exactly the requested
\* directories that hold an artifact, in the order they were named
ContinuedWithRest ==
  LET rest == WithArtifact(RequestedDirs)
  IN /\ outcome = (IF caller = "cli" THEN "exit0" ELSE "resolved")
     /\ "coverage-final.json" \in written
     /\ Len(coverageMaps) = Len(rest)
     /\ \A j \in 1..Len(rest) :
          MapValue(coverageMaps[j]) = LoadedValue(DirState(rest[j]).value)
     /\ MapValue(result) = GraphValue(smartMergeCoverage(coverageMaps))

\* C14 as claimed: a requested directory without coverage-final.json never
\* stops the run; it is skipped and the rest is merged in its order
C14_MissingArtifactSkipped ==
  (pc = "done" /\ MergeRequested /\ SomeWithoutArtifact /\ ~AnyMalformed(RequestedDirs))
    => ContinuedWithRest

\* C14 amended: a requested directory without coverage-final.json is skipped
\* and the rest is merged in its order, except that the command line exits
\* with code 1, nothing merged or written, when fewer than two directories
\* with an artifact remain
C14_MissingArtifactSkippedWhileTwoRemain ==
  (pc = "done" /\ MergeRequested /\ SomeWithoutArtifact /\ ~AnyMalformed(RequestedDirs))
    => IF caller = "cli" /\ Len(WithArtifact(RequestedDirs)) < 2
       THEN /\ outcome = "exit1"
            /\ written = {}
            /\ result = NoResult
            /\ coverageMaps = << >>
       ELSE ContinuedWithRest

\* the command line was given d3, d1, d2, of which d1 has no artifact: the
\* run ended with exit code 0 having merged d3's map, then d2's
C14_Witness ==
  /\ pc = "done"
  /\ caller = "cli"
  /\ RequestedDirs = << D3, D1, D2 >>
  /\ DirState(D1) = NoFile
  /\ DirState(D3).ok
  /\ DirState(D2).ok
  /\ outcome = "exit0"
  /\ Len(coverageMaps) = 2
  /\ FileB \in DOMAIN mapObj[coverageMaps[1]]
  /\ FileB \notin DOMAIN mapObj[coverageMaps[2]]

\* the arguments without the given one
Without(args, arg) == SelectSeq(args, LAMBDA a : a # arg)

Mentions(args, arg) == \E j \in 1..Len(args) : args[j] = arg

\* a command line that asks for a merge of at least two directories with
\* parsable artifacts
Mergeable(args) ==
  LET parsed == parseArgs(args)
  IN /\ Len(args) > 0
     /\ parsed.error = {}
     /\ ~parsed.help
     /\ ~parsed.version
     /\ Len(parsed.inputDirs) >= 2
     /\ parsed.outputDir # {}
     /\ Len(WithArtifact(parsed.inputDirs)) >= 2
     /\ ~AnyMalformed(parsed.inputDirs)

\* C15: a run of the command line that names no normalisation option
\* normalises every map it loads before merging, and --no-normalize is an
\* accepted option with which the run merges the maps as loaded
C15_NormalizeByDefault ==
  (pc = "done" /\ caller = "cli") =>
    /\ (Mergeable(argv) /\ ~Mentions(argv, ArgNoNormalize)) =>
         /\ outcome = "exit0"
         /\ \A i \in 1..Len(coverageMaps) : normalized[i].ran
    /\ (Mentions(argv, ArgNoNormalize) /\ Mergeable(Without(argv, ArgNoNormalize))) =>
         /\ outcome = "exit0"
         /\ \A i \in 1..Len(coverageMaps) : ~normalized[i].ran

\* C16: merging two sources of a file of which the first has more items,
\* among them a statement at line 1, column 0, and the second fewer, takes
\* the first one's structure: the merged statementMap has the larger number
\* of ids
C16_DefaultPrefersMoreItems ==
  (Merged /\ Len(coverageMaps) = 2) =>
    \A file \in MergedFiles :
      LET src == SourcesOf(file)
      IN (/\ Len(src) = 2
          /\ \E k \in DOMAIN src[1].statementMap :
               src[1].statementMap[k] = [line |-> 1, column |-> 0]
          /\ getTotalItems(src[1]) > getTotalItems(src[2])
          /\ getTotalItems(src[2]) > 0) =>
           Cardinality(DOMAIN MergedRecord(file).statementMap)
             = Max(Cardinality(DOMAIN src[1].statementMap),
                   Cardinality(DOMAIN src[2].statementMap))

\* the declared items of a record, whatever their counts
DeclaredItems(rec) ==
  Cardinality(DOMAIN rec.statementMap) + Cardinality(DOMAIN rec.branchMap)
    + Cardinality(DOMAIN rec.fnMap)

Declaring(src) == {i \in 1..Len(src) : DeclaredItems(src[i]) > 0}

HasPseudo(rec) ==
  \E k \in DOMAIN rec.statementMap :
    rec.statementMap[k].line = 1 /\ rec.statementMap[k].column \in {0, NullCol}

SameShape(rec1, rec2) ==
  /\ rec1.statementMap = rec2.statementMap
  /\ rec1.fnMap = rec2.fnMap
  /\ rec1.branchMap = rec2.branchMap

C18_EmptyNeverBaseline ==
  Merged =>
    \A file \in MergedFiles :
      LET src == SourcesOf(file)
          sel == selectBestSource(src)
      IN /\ sel \in 1..Len(src)
         /\ SameShape(MergedRecord(file), src[sel])
         /\ Declaring(src) # {} =>
              /\ sel \in Declaring(src)
              /\ DeclaredItems(MergedRecord(file)) > 0
         /\ \A i \in 1..Len(src) : Declaring(src) = {i} => sel = i
         /\ Declaring(src) = {} => sel = 1

\* a source with a line-1 pseudo-statement followed by a source without
\* items: the merged record has the first one's statements
C18_Witness ==
  /\ Merged
  /\ Len(coverageMaps) = 2
  /\ \E file \in MergedFiles :
       LET src == SourcesOf(file)
       IN /\ HasPseudo(src[1])
          /\ DeclaredItems(src[2]) = 0
          /\ MergedRecord(file).statementMap = src[1].statementMap
          /\ DeclaredItems(MergedRecord(file)) > 0

InputRecRefs == UNION {RecRefs(coverageMaps[i]) : i \in 1..Len(coverageMaps)}

\* a step in which smartMergeCoverage returned
SmartMergeStep == pc = "start" /\ pc' = "merged"

\* C20: smartMergeCoverage leaves the argument list, every input map and
\* every input record as they were, and its result is made of new objects:
\* its map, its records and the arrays its records hold at b are none of
\* the inputs' (nor, therefore, of the lookup indexes built on them)
C20_InputsUntouchedNothingShared ==
  [][SmartMergeStep =>
       /\ coverageMaps' = coverageMaps
       /\ \A i \in 1..Len(coverageMaps) :
            /\ mapObj'[coverageMaps[i]] = mapObj[coverageMaps[i]]
            /\ \A r \in RecRefs(coverageMaps[i]) : fileObj'[r] = fileObj[r]
       /\ \A i \in 1..Len(coverageMaps) :
            /\ result' # coverageMaps[i]
            /\ {mapObj'[result'][file] : file \in DOMAIN mapObj'[result']}
                 \cap RecRefs(coverageMaps[i]) = {}
       /\ \A file \in DOMAIN branchArrays' :
            \A k \in DOMAIN branchArrays'[file] :
              branchArrays'[file][k][1] \notin InputRecRefs
    ]_vars

\* three maps merged; a branch of the merged record has counts the baseline
\* does not have, taken from the array in another source's index, and the
\* baseline record still holds its own
C20_Witness ==
  /\ Merged
  /\ Len(coverageMaps) = 3
  /\ \E file \in MergedFiles :
       /\ Len(SourcesOf(file)) = 3
       /\ \E k \in DOMAIN MergedRecord(file).b :
            /\ MergedRecord(file).b[k] # Baseline(file).b[k]
            /\ \E i \in 1..3 : \E j \in DOMAIN SourcesOf(file)[i].b :
                 /\ SourcesOf(file)[i].branchMap[j] = MergedRecord(file).branchMap[k]
                 /\ SourcesOf(file)[i].b[j] = MergedRecord(file).b[k]
            /\ branchArrays[file][k] = << NewRecRef(file), k >>

\* C21: a pass of normalizeCoverage leaves the map with the files it had,
\* leaves fnMap, f, branchMap, b and path of every record as they were, and
\* leaves the location and the count of every statement entry it keeps
C21_NormalizeTouchesOnlyDeleted ==
  [][\A i \in 1..Len(coverageMaps) :
       NormalizeStep(i) =>
         LET m == coverageMaps[i]
         IN /\ mapObj' = mapObj
            /\ coverageMaps' = coverageMaps
            /\ DOMAIN fileObj' = DOMAIN fileObj
            /\ \A file \in DOMAIN mapObj[m] :
                 LET pre  == fileObj[mapObj[m][file]]
                     post == fileObj'[mapObj[m][file]]
                 IN /\ post.fnMap = pre.fnMap
                    /\ post.f = pre.f
                    /\ post.branchMap = pre.branchMap
                    /\ post.b = pre.b
                    /\ post.path = pre.path
                    /\ \A k \in DOMAIN post.statementMap :
                         /\ k \in DOMAIN pre.statementMap
                         /\ post.statementMap[k] = pre.statementMap[k]
                         /\ post.s[k] = pre.s[k]
    ]_vars

\* a pass deleted statement 0, on the import line 1, of a record that has a
\* function and a branch on that line too: statement 1, the function and
\* the branch are still there
C21_Witness ==
  /\ pc = "start"
  /\ Len(coverageMaps) = 1
  /\ FileA \in DOMAIN mapObj[coverageMaps[1]]
  /\ sources[FileA].kind = "text"
  /\ sources[FileA].lines[1] \in ImportLines
  /\ normalized[1] = [ran |-> TRUE, importsRemoved |-> 1, directivesRemoved |-> 0]
  /\ LET rec == fileObj[mapObj[coverageMaps[1]][FileA]]
     IN /\ DOMAIN rec.statementMap = {1}
        /\ rec.s[1] = 1
        /\ DOMAIN rec.fnMap = {0}
        /\ rec.fnMap[0].line = 1
        /\ rec.f[0] = 1
        /\ DOMAIN rec.branchMap = {0}
        /\ rec.branchMap[0].line = 1
        /\ rec.b[0] = << 1 >>

\* a sequence without its j-th element
DropAt(seq, j) == [i \in 1..(Len(seq) - 1) |-> IF i < j THEN seq[i] ELSE seq[i + 1]]

\* what smartMergeCoverage makes of the records of one file
MergeOf(src) == IF Len(src) = 1 THEN src[1] ELSE mergeFileCoverages(src)

\* the record never executed anything at the location
NeverExecuted(rec, loc) ==
  /\ \A k \in DOMAIN rec.statementMap : rec.statementMap[k] = loc => rec.s[k] = 0
  /\ \A k \in DOMAIN rec.fnMap : rec.fnMap[k] = loc => rec.f[k] = 0
  /\ \A k \in DOMAIN rec.branchMap :
       rec.branchMap[k] = loc => \A idx \in 1..Len(rec.b[k]) : rec.b[k][idx] = 0

\* every value of an index is a nonzero count
OnlyNonzero(idx) == \A key \in DOMAIN idx : idx[key] > 0

\* every value of an index is an array with a nonzero count
OnlyExecuted(idx) == \A key \in DOMAIN idx : \E i \in 1..Len(idx[key]) : idx[key][i] > 0

\* C22: the index built on a source holds nonzero counts only, and a source
\* that never executed a location does not make the merged count there
\* (statement, function or branch outcome) lower than the merge of the other
\* sources gives
C22_UnexecutedNeverLowers ==
  Merged =>
    \A file \in MergedFiles :
      LET src == SourcesOf(file)
          m   == MergedRecord(file)
      IN /\ \A i \in 1..Len(src) :
              LET idx == buildLookups(src[i])
              IN /\ OnlyNonzero(idx.stmts) /\ OnlyNonzero(idx.stmtsByLine)
                 /\ OnlyNonzero(idx.fns) /\ OnlyNonzero(idx.fnsByLine)
                 /\ OnlyExecuted(idx.branches) /\ OnlyExecuted(idx.branchesByLine)
         /\ \A j \in 1..Len(src) :
              j # selectBestSource(src) =>
                LET without == MergeOf(DropAt(src, j))
                IN SameShape(m, without) =>
                     /\ \A k \in DOMAIN m.statementMap :
                          NeverExecuted(src[j], m.statementMap[k]) => m.s[k] >= without.s[k]
                     /\ \A k \in DOMAIN m.fnMap :
                          NeverExecuted(src[j], m.fnMap[k]) => m.f[k] >= without.f[k]
                     /\ \A k \in DOMAIN m.branchMap :
                          NeverExecuted(src[j], m.branchMap[k]) =>
                            \A idx \in 1..Len(m.b[k]) : m.b[k][idx] >= without.b[k][idx]

\* the keys of the entries of a map that start on a line and were executed
ExecutedCountKeys(locMap, counts, line) ==
  {k \in DOMAIN locMap : locMap[k].line = line /\ counts[k] > 0}

ExecutedBranchKeys(rec, line) ==
  {k \in DOMAIN rec.branchMap :
     rec.branchMap[k].line = line /\ \E i \in 1..Len(rec.b[k]) : rec.b[k][i] > 0}

\* the line entries of a count index are the greatest counts of the lines
\* that have an executed entry
LineEntriesAreMax(byLine, locMap, counts) ==
  /\ DOMAIN byLine = {line \in 1..(MaxLine + 1) : ExecutedCountKeys(locMap, counts, line) # {}}
  /\ \A line \in DOMAIN byLine :
       byLine[line] = MaxOf({counts[k] : k \in ExecutedCountKeys(locMap, counts, line)})

\* C23: in the index of a source, the line entry of statements and of
\* functions is the greatest count of the executed entries starting on the
\* line; the line entry of branches is the counts array of the first
\* executed branch starting on the line, in the order of the record's keys
C23_LineEntryMaxOrFirstBranch ==
  Merged =>
    \A file \in MergedFiles :
      \A i \in 1..Len(SourcesOf(file)) :
        LET rec == SourcesOf(file)[i]
            idx == buildLookups(rec)
        IN /\ LineEntriesAreMax(idx.stmtsByLine, rec.statementMap, rec.s)
           /\ LineEntriesAreMax(idx.fnsByLine, rec.fnMap, rec.f)
           /\ DOMAIN idx.branchesByLine
                = {line \in 1..(MaxLine + 1) : ExecutedBranchKeys(rec, line) # {}}
           /\ \A line \in DOMAIN idx.branchesByLine :
                idx.branchesByLine[line] = rec.b[MinOf(ExecutedBranchKeys(rec, line))]

\* a merged source has two executed branches on one line with different
\* counts: the line entry of its index is the first one's array; the
\* baseline's branch on that line, at a location the source does not have,
\* got its count from it
C23_Witness ==
  /\ Merged
  /\ Len(coverageMaps) = 2
  /\ \E file \in MergedFiles :
       LET src == SourcesOf(file)
           rec == src[1]
           m   == MergedRecord(file)
       IN /\ selectBestSource(src) = 2
          /\ DOMAIN rec.branchMap = {0, 1}
          /\ rec.branchMap[0].line = rec.branchMap[1].line
          /\ rec.b[0] = << 1, 0 >>
          /\ rec.b[1] = << 0, 1 >>
          /\ buildLookups(rec).branchesByLine[rec.branchMap[0].line] = << 1, 0 >>
          /\ DOMAIN m.branchMap = {0}
          /\ m.branchMap[0].line = rec.branchMap[0].line
          /\ m.branchMap[0] # rec.branchMap[0]
          /\ m.branchMap[0] # rec.branchMap[1]
          /\ src[2].b[0] = << 0, 0 >>
          /\ m.b[0] = << 1, 0 >>

\* the sources that declare the fewest items among those declaring any
FewestDeclaring(src) ==
  {i \in Declaring(src) : \A j \in Declaring(src) : DeclaredItems(src[i]) <= DeclaredItems(src[j])}

\* C24: when every source declaring items has a line-1 pseudo-statement and
\* two or more of them tie for the fewest items, the baseline is the first
\* of the tied ones in input order
C24_FewestTieFirstWins ==
  Merged =>
    \A file \in MergedFiles :
      LET src == SourcesOf(file)
      IN (/\ \A i \in Declaring(src) : HasPseudo(src[i])
          /\ Cardinality(FewestDeclaring(src)) >= 2) =>
           /\ selectBestSource(src) = MinOf(FewestDeclaring(src))
           /\ SameShape(MergedRecord(file), src[MinOf(FewestDeclaring(src))])

\* two sources with a line-1 pseudo-statement and as many items as each
\* other, of different shapes: the merged record has the first one's shape
C24_Witness ==
  /\ Merged
  /\ Len(coverageMaps) = 2
  /\ \E file \in MergedFiles :
       LET src == SourcesOf(file)
       IN /\ HasPseudo(src[1]) /\ HasPseudo(src[2])
          /\ DeclaredItems(src[1]) = DeclaredItems(src[2])
          /\ DeclaredItems(src[1]) > 0
          /\ ~SameShape(src[1], src[2])
          /\ SameShape(MergedRecord(file), src[1])

====
